---- MODULE Spec2Model ----
(***************************************************************************)
(* A model of rumq: the router-side Connection handle of rumqttlog          *)
(* (router/mod.rs) and the client event loop of rumq-client (eventloop.rs). *)
(* The client's MqttState (state.rs) is not among the source files; its     *)
(* handlers are modelled from the transition table of the design            *)
(* specification, section 4.2.                                              *)
(***************************************************************************)
EXTENDS Integers, Sequences, FiniteSets, TLC

(***************************************************************************)
(* Bounds of the model.                                                     *)
(***************************************************************************)
Capacity == 2        \* capacity of a connection's bounded handle
MaxNotes == 7        \* notifications the router hands to notify
MaxPkid == 2         \* packet ids the client state assigns in one behaviour
MaxInflight == 1     \* the configured max_inflight
ReqCap == 1          \* capacity of the user's request channel
NetCap == 1          \* incoming packets buffered on the socket
MaxStreams == 2      \* calls of stream() on one MqttEventLoop
MaxAppends == 3      \* publishes appended to the topic's commit log
MaxConns == 3        \* connection ids known to the router
MaxPushes == 4       \* effective pushes on the ReadyQueue in one behaviour
MaxCodes == 2        \* return codes in a SubAck frame
MaxTrail == 1        \* bytes that follow a frame in the stream
MaxSends == 2        \* requests the user sends in a behaviour of SpecSelect
MaxArrivals == 3     \* packets the broker sends in a behaviour of SpecSelect
TicksPerSec == 2     \* clock resolution of the timed specification

(***************************************************************************)
(* Program constants.                                                       *)
(***************************************************************************)
KeepAlive == 5       \* options.set_keep_alive(5), seconds
ConnectTimeout == 5  \* Duration::from_secs(5) around the connack read
ThrottleSecs == 1    \* options.set_throttle(Duration::from_secs(1)), seconds
PkidMax == 65535     \* PacketId wraps 1..=65535

VARIABLES
    \* ---- rumqttlog Connection
    handle,          \* notifications queued on the bounded channel, oldest first
    last_failed,     \* Connection.last_failed: None or the parked notification
    rx_open,         \* the Receiver end of the handle has not been dropped
    ret,             \* return value of the last notify / notify_last_failed
    cleared,         \* notify_last_failed returned true and notify was not called since
    notified,        \* how many notifications were passed to notify (ids 1..notified)
    enqueued,        \* ids that try_send accepted, in order
    delivered,       \* ids the receiver took out of the channel, in order
    \* ---- rumq-client event loop
    pc,              \* position of the stream() generator
    state,           \* MqttEventLoop.state (MqttState)
    requests,        \* the user's request channel
    req_closed,      \* the user dropped the request sender
    netIn,           \* packets the broker sent that were not read yet
    pend_p,          \* outpacket of the iteration, not yet written
    pend_n,          \* notification of the iteration, not yet yielded
    reqLeft,         \* ticks left on request_stream's timeout
    netLeft,         \* ticks left on network_stream's timeout
    connLeft,        \* ticks left on mqtt_connect's connack timeout
    clock,           \* ticks per second; 0: time is not measured and every
                     \* running timeout may expire at any moment
    throttle,        \* options.throttle in ticks
    thrLeft,         \* ticks left on the delay of time::throttle
    \* ---- observers of the event loop (history, no effect on the program)
    gen,             \* calls of stream() so far
    fatal,           \* the fatal error that ended the current stream, "" if none
    lastYield,       \* last notification the current stream yielded
    carried,         \* pkids of the outbound map when stream() was called again
    resent,          \* pkids of dup publishes written on this connection before new requests
    newWritten,      \* a user request was written on this connection
    qos2,            \* pkids the state assigned to QoS-2 publishes
    hist,            \* per QoS-2 pkid: the events of its exchange, in order
    obs,             \* observations of the timed specification
    \* ---- rumqttlog router components and the mqtt4bytes codec
    wm,              \* Watermarks of one topic, with the acks released so far
    rq,              \* the router's ReadyQueue, with its pushes and pops
    dec              \* the packet handed to a decoder and what it returned

connVars == <<handle, last_failed, rx_open, ret, cleared, notified, enqueued, delivered>>
coreVars == <<pc, state, requests, req_closed, netIn, pend_p, pend_n,
              reqLeft, netLeft, connLeft, clock, throttle, thrLeft>>
histVars == <<gen, fatal, lastYield, carried, resent, newWritten, qos2, hist>>
loopVars == <<coreVars, histVars, obs>>
sideVars == <<wm, rq, dec>>
vars == <<connVars, loopVars, sideVars>>

Range(s) == {s[i] : i \in DOMAIN s}
Min(a, b) == IF a < b THEN a ELSE b
Max(a, b) == IF a > b THEN a ELSE b

(***************************************************************************)
(* rumqttlog: Connection (router/mod.rs)                                    *)
(***************************************************************************)
None == 0

\* try_send that does not notice a dropped Receiver
try_send_open(h, open) ==
    IF Len(h) >= Capacity THEN "Full"
    ELSE "Ok"

\* jackiechan Sender::try_send on the bounded handle
try_send(h, open) ==
    IF ~open THEN "Closed"
    ELSE IF Len(h) >= Capacity THEN "Full"
    ELSE "Ok"

\* Connection::notify: on Full or Closed the notification is stored in
\* last_failed, whatever last_failed held
notify(h, lf, open, n) ==
    IF try_send(h, open) = "Ok"
    THEN [handle |-> Append(h, n), last_failed |-> lf, ret |-> TRUE]
    ELSE [handle |-> h, last_failed |-> n, ret |-> FALSE]

\* notify_last_failed with the slot read but not taken
notify_last_failed_keep(h, lf, open) ==
    IF lf # None
    THEN notify(h, lf, open, lf)
    ELSE [handle |-> h, last_failed |-> lf, ret |-> TRUE]

\* notify_last_failed with the result of the retry discarded
notify_last_failed_discard(h, lf, open) ==
    IF lf # None
    THEN [notify(h, None, open, lf) EXCEPT !.ret = TRUE]
    ELSE [handle |-> h, last_failed |-> lf, ret |-> TRUE]

\* Connection::notify_last_failed: take() the slot, retry it with notify
notify_last_failed(h, lf, open) ==
    IF lf # None
    THEN notify(h, None, open, lf)
    ELSE [handle |-> h, last_failed |-> lf, ret |-> TRUE]

ConnInit ==
    /\ handle = <<>>
    /\ last_failed = None
    /\ rx_open = TRUE
    /\ ret = TRUE
    /\ cleared = FALSE
    /\ notified = 0
    /\ enqueued = <<>>
    /\ delivered = <<>>

\* the router calls connection.notify(n) with a new notification
Notify ==
    /\ notified < MaxNotes
    /\ LET n == notified + 1
           r == notify(handle, last_failed, rx_open, n)
       IN /\ handle' = r.handle
          /\ last_failed' = r.last_failed
          /\ ret' = r.ret
          /\ notified' = n
          /\ enqueued' = IF r.ret THEN Append(enqueued, n) ELSE enqueued
    /\ cleared' = FALSE
    /\ UNCHANGED <<rx_open, delivered, loopVars, sideVars>>

\* the router calls connection.notify_last_failed()
NotifyLastFailed ==
    /\ LET r == notify_last_failed(handle, last_failed, rx_open)
       IN /\ handle' = r.handle
          /\ last_failed' = r.last_failed
          /\ ret' = r.ret
          /\ cleared' = r.ret
          /\ enqueued' = IF last_failed # None /\ r.ret
                         THEN Append(enqueued, last_failed) ELSE enqueued
    /\ UNCHANGED <<rx_open, notified, delivered, loopVars, sideVars>>

\* the connection's task receives one notification from its Receiver
Drain ==
    /\ rx_open
    /\ handle # <<>>
    /\ delivered' = Append(delivered, Head(handle))
    /\ handle' = Tail(handle)
    /\ UNCHANGED <<last_failed, rx_open, ret, cleared, notified, enqueued, loopVars, sideVars>>

\* the connection's task ends and drops its Receiver
DropReceiver ==
    /\ rx_open
    /\ rx_open' = FALSE
    /\ UNCHANGED <<handle, last_failed, ret, cleared, notified, enqueued, delivered, loopVars, sideVars>>

ConnNext == Notify \/ NotifyLastFailed \/ Drain \/ DropReceiver

\* the router, after notify_last_failed() returned true, calls
\* connection.notify(n) with a new notification
NotifyAfterRetry ==
    /\ cleared
    /\ Notify

(***************************************************************************)
(* rumqttlog: Watermarks of one topic (router/watermarks.rs is not among    *)
(* the source files; modelled from the design specification, sections 4.3   *)
(* and 4.6).  w[0] is the native watermark, w[1] and w[2] those of the two  *)
(* replicas; pending is the queue of (offset, packet id) not yet released.  *)
(***************************************************************************)
Entry(o, id) == [offset |-> o, pkid |-> id]

NewWatermarks(replication, base) ==
    [replication |-> replication,   \* replicas that must acknowledge: 0 or 2
     next |-> base,                 \* offset the next append returns
     w |-> [r \in 0..2 |-> 0],
     pending |-> <<>>,
     acks |-> <<>>,                 \* entries released into Acks, in order
     log |-> <<>>]                  \* entries appended, in order (history)

\* the gate as a slip would compute it: the native watermark although
\* replicas must acknowledge
Gate_native(m) == m.w[0]

\* the offset up to which pending entries are released: min(w1, w2), or w0
\* in standalone mode
Gate(m) == IF m.replication = 0 THEN m.w[0] ELSE Min(m.w[1], m.w[2])

\* the front elements of the pending queue with offset <= g
RECURSIVE Front(_, _)
Front(q, g) ==
    IF q = <<>> \/ Head(q).offset > g THEN <<>>
    ELSE <<Head(q)>> \o Front(Tail(q), g)

\* pop every front element the gate allows and append it to the Acks
release(m) ==
    LET out == Front(m.pending, Gate(m))
    IN [m EXCEPT !.pending = SubSeq(@, Len(out) + 1, Len(@)),
                 !.acks = @ \o out]

\* native append at offset o = m.next for the publish with packet id id
append(m, id) ==
    release([m EXCEPT !.w[0] = m.next,
                      !.pending = Append(@, Entry(m.next, id)),
                      !.log = Append(@, Entry(m.next, id)),
                      !.next = @ + 1])

\* replication ack from replica r up to offset o
replication_ack(m, r, o) == release([m EXCEPT !.w[r] = Max(@, o)])

(***************************************************************************)
(* rumqttlog: ReadyQueue (router/readyqueue.rs is not among the source      *)
(* files; modelled from the design specification, section 4.7).             *)
(***************************************************************************)
NewReadyQueue ==
    [queue |-> <<>>,     \* the FIFO of connection ids
     pushed |-> <<>>,    \* ids of the pushes that changed the queue, in order (history)
     popped |-> <<>>]    \* ids pop returned, in order (history)

\* push without the look-up of the id
push_always(q, id) == Append(q, id)

\* ReadyQueue::push: a no-op if the id is already present
push(q, id) == IF id \in Range(q) THEN q ELSE Append(q, id)

\* ReadyQueue::pop: the front and the rest of the queue
pop(q) == [id |-> Head(q), queue |-> Tail(q)]

\* the router marks a connection as pending
ReadyPush ==
    \E id \in 1..MaxConns :
        /\ Len(rq.pushed) < MaxPushes
        /\ LET q == push(rq.queue, id)
           IN rq' = [rq EXCEPT !.queue = q,
                               !.pushed = IF q # rq.queue THEN Append(@, id) ELSE @]
        /\ UNCHANGED <<wm, dec, connVars, loopVars>>

\* the router services the connection at the head of the queue
ReadyPop ==
    /\ rq.queue # <<>>
    /\ LET r == pop(rq.queue)
       IN rq' = [rq EXCEPT !.queue = r.queue, !.popped = Append(@, r.id)]
    /\ UNCHANGED <<wm, dec, connVars, loopVars>>

(***************************************************************************)
(* mqtt4bytes: SubAck::assemble and PubRel::assemble (packets/suback.rs,    *)
(* packets/pubrel.rs).  A stream is a sequence of bytes, the frame first.   *)
(* The fixed header parser, qos() and the encoder are in lib.rs, which is   *)
(* not among the source files; they are modelled from the design            *)
(* specification, section 4.1.                                              *)
(***************************************************************************)
SeqsUpTo(S, n) == UNION {[1..k -> S] : k \in 0..n}

PkidBytes == {0, 1, 10, 15, 255}
CodeBytes == {0, 1, 2, 3, 4, 7, 128, 131, 255}
TrailBytes == {128, 222}

Decoded(pkt) == [ok |-> TRUE, packet |-> pkt]
Failed(e) == [ok |-> FALSE, err |-> e]

\* the call does not return: the thread panics (or the process aborts)
Panicked(m) == [ok |-> FALSE, panic |-> m]

Success(q) == [code |-> "Success", qos |-> q]
Failure == [code |-> "Failure", qos |-> 0]

\* the fixed header of a frame whose remaining length fits one byte
FixedHeader(stream) == [header_len |-> 2, remaining_len |-> stream[2]]

\* qos(): the QoS of a number, an error above 2
qos(n) == IF n <= 2 THEN Decoded(n) ELSE Failed("InvalidQoS")

\* the two bytes read in the other byte order
get_u16_le(bytes, i) == bytes[i] + bytes[i + 1] * 256

\* Buf::get_u16 at position i: big-endian
get_u16(bytes, i) == bytes[i] * 256 + bytes[i + 1]

\* the return code decoded without the mask on the QoS bits
return_code_unmasked(b) ==
    IF b \div 128 = 1 THEN Decoded(Failure)
    ELSE IF qos(b).ok THEN Decoded(Success(qos(b).packet))
    ELSE qos(b)

\* suback.rs lines 29-33: one return code.  b >> 7 is b \div 128, b & 0x3
\* is b % 4
return_code(b) ==
    IF b \div 128 = 1 THEN Decoded(Failure)
    ELSE IF qos(b % 4).ok THEN Decoded(Success(qos(b % 4).packet))
    ELSE qos(b % 4)

\* suback.rs lines 27-35: the loop over payload_bytes return codes, the
\* next byte at position i; `?` returns the first error
RECURSIVE return_codes(_, _, _)
return_codes(bytes, i, payload_bytes) ==
    IF payload_bytes = 0 THEN Decoded(<<>>)
    ELSE LET c == return_code(bytes[i])
             rest == return_codes(bytes, i + 1, payload_bytes - 1)
         IN IF ~c.ok THEN c
            ELSE IF ~rest.ok THEN rest
            ELSE Decoded(<<c.packet>> \o rest.packet)

\* a - b on usize.  When b > a a build with overflow checks (debug) panics;
\* a build without them (release) wraps to 2^64 + a - b, which is kept here
\* as the difference with the flag `wrapped`
usize_sub(a, b, overflow_checks) ==
    IF a >= b THEN [ok |-> TRUE, wrapped |-> FALSE, value |-> a - b]
    ELSE IF overflow_checks THEN Panicked("attempt to subtract with overflow")
    ELSE [ok |-> TRUE, wrapped |-> TRUE, value |-> a - b]

\* Vec::with_capacity(n): a capacity above isize::MAX, which every wrapped
\* value is, ends in a capacity overflow panic or a failed allocation
with_capacity(n) ==
    IF n.wrapped THEN Panicked("Vec::with_capacity") ELSE Decoded(<<>>)

\* suback.rs lines 19-39.  Buf::get_u16 panics when fewer than two bytes
\* remain after the fixed header
SubAck_assemble(fixed_header, bytes, overflow_checks) ==
    LET at == fixed_header.header_len + 1
        pkid == get_u16(bytes, at)
        payload_bytes == usize_sub(fixed_header.remaining_len, 2, overflow_checks)
        codes == return_codes(bytes, at + 2, payload_bytes.value)
    IN IF Len(bytes) < at + 1 THEN Panicked("Buf::get_u16")
       ELSE IF ~payload_bytes.ok THEN payload_bytes
       ELSE IF ~with_capacity(payload_bytes).ok THEN with_capacity(payload_bytes)
       ELSE IF codes.ok
       THEN Decoded([pkid |-> pkid, return_codes |-> codes.packet])
       ELSE codes

PubRel_assemble(fixed_header, bytes) ==
    IF fixed_header.remaining_len # 2
    THEN Failed("PayloadSizeIncorrect")
    ELSE Decoded([pkid |-> get_u16(bytes, fixed_header.header_len + 1)])

\* the encoding of a PubRel: type and flags 0x62, remaining length 2, the
\* packet id big-endian
PubRel_write(pkt) == <<98, 2, pkt.pkid \div 256, pkt.pkid % 256>>

NoDecode == [packet |-> "none", stream |-> <<>>, result |-> Failed("")]

\* the bodies of the SubAck frames: up to two bytes of packet id, and after
\* two of them the return codes
SubAckBodies ==
    SeqsUpTo(PkidBytes, 1)
    \cup {id \o codes : id \in [1..2 -> PkidBytes], codes \in SeqsUpTo(CodeBytes, MaxCodes)}

\* mqtt_read hands a SubAck frame to SubAck::assemble, in a build with or
\* without overflow checks
DecodeSubAck ==
    /\ dec.packet = "none"
    /\ \E body \in SubAckBodies, trail \in SeqsUpTo(TrailBytes, MaxTrail),
          overflow_checks \in BOOLEAN :
           LET stream == <<144, Len(body)>> \o body \o trail
           IN dec' = [packet |-> "SubAck", stream |-> stream,
                      result |-> SubAck_assemble(FixedHeader(stream), stream, overflow_checks)]
    /\ UNCHANGED <<wm, rq, connVars, loopVars>>

\* mqtt_read hands a frame of type PubRel to PubRel::assemble
DecodePubRel ==
    /\ dec.packet = "none"
    /\ \E body \in SeqsUpTo(PkidBytes, 3), trail \in SeqsUpTo(TrailBytes, MaxTrail) :
           LET stream == <<98, Len(body)>> \o body \o trail
           IN dec' = [packet |-> "PubRel", stream |-> stream,
                      result |-> PubRel_assemble(FixedHeader(stream), stream)]
    /\ UNCHANGED <<wm, rq, connVars, loopVars>>

\* the components a specification does not exercise
SideInit ==
    /\ wm = NewWatermarks(0, 0)
    /\ rq = NewReadyQueue
    /\ dec = NoDecode

\* Event::Data with one publish
RouterData ==
    \E id \in 1..MaxPkid :
        /\ Len(wm.log) < MaxAppends
        /\ wm' = append(wm, id)
        /\ UNCHANGED <<rq, dec, connVars, loopVars>>

\* Event::ReplicationAcks with one ReplicationAck { topic, offset }
RouterReplicationAck ==
    \E r \in 1..2, o \in 0..MaxAppends :
        /\ wm.replication > 0
        /\ wm' = replication_ack(wm, r, o)
        /\ UNCHANGED <<rq, dec, connVars, loopVars>>

(***************************************************************************)
(* rumq-client: packets, requests and notifications                         *)
(***************************************************************************)
Pkt(k, q, id, d) == [kind |-> k, qos |-> q, pkid |-> id, dup |-> d]
NoPkt == Pkt("none", 0, 0, FALSE)
Pingreq == Pkt("Pingreq", 0, 0, FALSE)
Pingresp == Pkt("Pingresp", 0, 0, FALSE)
Connack(ok) == Pkt("Connack", IF ok THEN 0 ELSE 1, 0, FALSE)
Publish(q, id) == Pkt("Publish", q, id, FALSE)
Ack(k, id) == Pkt(k, 0, id, FALSE)

Note(k, id, e) == [kind |-> k, pkid |-> id, err |-> e]
NoNote == Note("none", 0, "")
StreamEnd(e) == Note("StreamEnd", 0, e)

Pkids == 1..MaxPkid

\* what the user can put on the request channel (From<Request> for Packet)
UserRequests ==
    {Publish(q, 0) : q \in 0..2} \cup {Pkt("Subscribe", 0, 0, FALSE)}

\* what a broker can put on the wire
BrokerPackets ==
    {Connack(TRUE), Connack(FALSE), Pingresp, Publish(0, 0), Publish(1, 1),
     Publish(2, 1), Ack("Pubrel", 1)}
    \cup {Ack(k, id) : k \in {"Puback", "Pubrec", "Pubcomp"}, id \in Pkids}

(***************************************************************************)
(* rumq-client: MqttState.  state.rs is not among the sources: the handlers *)
(* follow the transition table of the design specification (4.2) and the    *)
(* doc comments of network_stream.                                          *)
(***************************************************************************)
NewState ==
    [await_connack |-> FALSE,
     outbound |-> {},          \* in-flight map, as a set of [pkid, qos]
     release |-> {},           \* pkids waiting for PubComp
     incoming |-> {},          \* pkids of incoming QoS-2 publishes
     await_pingresp |-> FALSE,
     last_pkid |-> 0]

Ok(s, n, p) == [state |-> s, n |-> n, p |-> p, err |-> ""]
Err(s, e) == [state |-> s, n |-> NoNote, p |-> NoPkt, err |-> e]

InMap(m, id) == \E e \in m : e.pkid = id
Insert(m, id, q) == {e \in m : e.pkid # id} \cup {[pkid |-> id, qos |-> q]}
Remove(m, id) == {e \in m : e.pkid # id}

\* next_pkid: wraps 1..=PkidMax, skipping 0
next_pkid(last) == IF last >= PkidMax THEN 1 ELSE last + 1

\* a PingReq is due: fails if the previous one was not answered
handle_outgoing_ping(s) ==
    IF s.await_pingresp
    THEN Err(s, "AwaitPingResp")
    ELSE Ok([s EXCEPT !.await_pingresp = TRUE], NoNote, Pingreq)

handle_outgoing_publish(s, p) ==
    IF p.qos = 0
    THEN Ok(s, NoNote, p)
    ELSE LET id == next_pkid(s.last_pkid)
         IN Ok([s EXCEPT !.last_pkid = id,
                         !.outbound = Insert(s.outbound, id, p.qos)],
               NoNote, [p EXCEPT !.pkid = id])

handle_outgoing_subscribe(s, p) ==
    LET id == next_pkid(s.last_pkid)
    IN Ok([s EXCEPT !.last_pkid = id], NoNote, [p EXCEPT !.pkid = id])

\* MqttState::handle_request
handle_request(s, p) ==
    CASE p.kind = "Publish" -> handle_outgoing_publish(s, p)
      [] p.kind \in {"Subscribe", "Unsubscribe"} -> handle_outgoing_subscribe(s, p)
      [] p.kind = "Pingreq" -> handle_outgoing_ping(s)
      [] OTHER -> Ok(s, NoNote, p)

handle_incoming_puback(s, id) ==
    IF InMap(s.outbound, id)
    THEN Ok([s EXCEPT !.outbound = Remove(s.outbound, id)], Note("Puback", id, ""), NoPkt)
    ELSE Err(s, "Unsolicited")

handle_incoming_pubrec(s, id) ==
    IF InMap(s.outbound, id)
    THEN Ok([s EXCEPT !.outbound = Remove(s.outbound, id),
                      !.release = s.release \cup {id}],
            NoNote, Ack("Pubrel", id))
    ELSE Err(s, "Unsolicited")

handle_incoming_pubrel(s, id) ==
    IF id \in s.incoming
    THEN Ok([s EXCEPT !.incoming = s.incoming \ {id}], NoNote, Ack("Pubcomp", id))
    ELSE Err(s, "Unsolicited")

handle_incoming_pubcomp(s, id) ==
    IF id \in s.release
    THEN Ok([s EXCEPT !.release = s.release \ {id}], NoNote, NoPkt)
    ELSE Err(s, "Unsolicited")

handle_incoming_publish(s, p) ==
    CASE p.qos = 0 -> Ok(s, Note("Publish", p.pkid, ""), NoPkt)
      [] p.qos = 1 -> Ok(s, Note("Publish", p.pkid, ""), Ack("Puback", p.pkid))
      [] OTHER -> Ok([s EXCEPT !.incoming = s.incoming \cup {p.pkid}],
                     Note("Publish", p.pkid, ""), Ack("Pubrec", p.pkid))

\* MqttState::handle_packet; network_stream hands its own Packet::Pingreq
\* to it when the read times out
handle_packet(s, p) ==
    CASE p.kind = "Puback" -> handle_incoming_puback(s, p.pkid)
      [] p.kind = "Pubrec" -> handle_incoming_pubrec(s, p.pkid)
      [] p.kind = "Pubrel" -> handle_incoming_pubrel(s, p.pkid)
      [] p.kind = "Pubcomp" -> handle_incoming_pubcomp(s, p.pkid)
      [] p.kind = "Publish" -> handle_incoming_publish(s, p)
      [] p.kind = "Pingresp" -> Ok([s EXCEPT !.await_pingresp = FALSE], NoNote, NoPkt)
      [] p.kind = "Pingreq" -> handle_outgoing_ping(s)
      [] OTHER -> Ok(s, NoNote, NoPkt)

\* MqttState::handle_outgoing_connect
handle_outgoing_connect(s) == [s EXCEPT !.await_connack = TRUE]

\* MqttState::handle_incoming_connack
handle_incoming_connack(s, p) ==
    IF p.kind = "Connack" /\ p.qos = 0 /\ s.await_connack
    THEN Ok([s EXCEPT !.await_connack = FALSE], NoNote, NoPkt)
    ELSE Err(s, "MqttState")


(***************************************************************************)
(* rumq-client: the event loop (eventloop.rs).  Each action below is one    *)
(* resumption of the stream! generator of MqttEventLoop::stream, from one   *)
(* suspension point to the next.  Its parameter names the outcome of the    *)
(* awaited future.                                                          *)
(***************************************************************************)
\* the timeouts as a slip in the code would set them
RequestTimeout_late == (KeepAlive + 1) * clock
NetworkTimeout_late == (KeepAlive + 2) * clock
NetworkTimeout_same == KeepAlive * clock
NetworkTimeout_early == (KeepAlive - 1) * clock
ConnackTimeout_late == (ConnectTimeout + 1) * clock

RequestTimeout == KeepAlive * clock          \* time::timeout(keep_alive, ..)
NetworkTimeout == (KeepAlive + 1) * clock    \* keep_alive + Duration::from_secs(1)
ConnackTimeout == ConnectTimeout * clock     \* time::timeout(Duration::from_secs(5), ..)

CoreInit(tps, thr) ==
    /\ clock = tps
    /\ throttle = thr
    /\ thrLeft = 0
    /\ pc = "idle"
    /\ state = NewState
    /\ requests = <<>>
    /\ req_closed = FALSE
    /\ netIn = <<>>
    /\ pend_p = NoPkt
    /\ pend_n = NoNote
    /\ reqLeft = KeepAlive * tps
    /\ netLeft = (KeepAlive + 1) * tps
    /\ connLeft = ConnectTimeout * tps

\* the break without the yield of StreamEnd(e)
Fail_silent(e) ==
    /\ pc' = "done"
    /\ pend_n' = NoNote
    /\ pend_p' = NoPkt

\* `yield Notification::StreamEnd(e)` followed by return / break
Fail(e) ==
    /\ pc' = "yield"
    /\ pend_n' = StreamEnd(e)
    /\ pend_p' = NoPkt

\* the result dispatched with the yield of the notification placed before
\* the write of the reply
Dispatch_yield_first(r) ==
    /\ state' = r.state
    /\ IF r.err # ""
       THEN Fail(r.err)
       ELSE /\ pend_p' = r.p
            /\ pend_n' = r.n
            /\ pc' = IF r.n # NoNote THEN "yield"
                     ELSE IF r.p # NoPkt THEN "write"
                     ELSE "select"

\* lines 107-125: the result of handle_packet / handle_request
Dispatch(r) ==
    /\ state' = r.state
    /\ IF r.err # ""
       THEN Fail(r.err)
       ELSE /\ pend_p' = r.p
            /\ pend_n' = r.n
            /\ pc' = IF r.p # NoPkt THEN "write"
                     ELSE IF r.n # NoNote THEN "yield"
                     ELSE "select"

ConnectOutcomes == {"ok", "connect_error", "connect_timeout", "write_error"}

\* stream() is polled for the first time: self.connect() up to the await of
\* the connack read (network_connect, then mqtt_connect's write of Connect)
stream_connect(o) ==
    /\ pc \in {"idle", "done"}
    /\ netIn' = <<>>
    /\ connLeft' = ConnackTimeout
    /\ IF o = "ok"
       THEN /\ state' = handle_outgoing_connect(state)
            /\ pc' = "connack"
            /\ UNCHANGED <<pend_p, pend_n>>
       ELSE /\ Fail(IF o = "connect_timeout" THEN "Timeout" ELSE "Network")
            /\ UNCHANGED state
    /\ UNCHANGED <<requests, req_closed, reqLeft, netLeft, clock, throttle, thrLeft>>

ReadOutcomes == {"packet", "timeout", "error"}

\* the packet the handshake takes for the ConnAck, without a look at it
handle_first_packet(s, p) == Ok([s EXCEPT !.await_connack = FALSE], NoNote, NoPkt)

\* mqtt_connect line 249: self.state.handle_incoming_connack(packet)?
validate_connack(s, p) == handle_incoming_connack(s, p)

\* mqtt_connect: the read of the connack under its 5 s timeout; on success
\* lines 88-93 create the two streams and the loop is entered
mqtt_connect(o) ==
    /\ pc = "connack"
    /\ CASE o = "packet" ->
              /\ netIn # <<>>
              /\ LET r == validate_connack(state, Head(netIn))
                 IN /\ state' = r.state
                    /\ IF r.err # ""
                       THEN Fail(r.err)
                       ELSE pc' = "select" /\ UNCHANGED <<pend_p, pend_n>>
              /\ netIn' = Tail(netIn)
         [] o = "timeout" ->
              /\ netIn = <<>>
              /\ connLeft = 0
              /\ Fail("Timeout")
              /\ UNCHANGED <<state, netIn>>
         [] OTHER ->
              /\ Fail("Network")
              /\ UNCHANGED <<state, netIn>>
    /\ reqLeft' = RequestTimeout
    /\ netLeft' = NetworkTimeout
    /\ thrLeft' = 0
    /\ UNCHANGED <<requests, req_closed, connLeft, clock, throttle>>

\* the select with a request branch that is not cancellation safe: when the
\* network branch wins while a request is ready, the request taken by the
\* losing future is dropped with it
network_stream_cancelling(o) ==
    /\ pc = "select"
    /\ CASE o = "packet" ->
              /\ netIn # <<>>
              /\ Dispatch(handle_packet(state, Head(netIn)))
              /\ netIn' = Tail(netIn)
              /\ netLeft' = NetworkTimeout
         [] o = "timeout" ->
              /\ netIn = <<>>
              /\ netLeft = 0
              /\ Dispatch(handle_packet(state, Pingreq))
              /\ netLeft' = NetworkTimeout
              /\ UNCHANGED netIn
         [] OTHER ->
              /\ pc' = "done"
              /\ UNCHANGED <<state, netIn, netLeft, pend_p, pend_n>>
    /\ requests' = IF requests # <<>> /\ thrLeft = 0 THEN Tail(requests) ELSE requests
    /\ UNCHANGED <<req_closed, reqLeft, connLeft, clock, throttle, thrLeft>>

\* select!: network_stream.next() is ready.  network_stream yields the
\* packet read, or its own Pingreq when the read timed out, and ends on a
\* read error
network_stream(o) ==
    /\ pc = "select"
    /\ CASE o = "packet" ->
              /\ netIn # <<>>
              /\ Dispatch(handle_packet(state, Head(netIn)))
              /\ netIn' = Tail(netIn)
              /\ netLeft' = NetworkTimeout
         [] o = "timeout" ->
              /\ netIn = <<>>
              /\ netLeft = 0
              /\ Dispatch(handle_packet(state, Pingreq))
              /\ netLeft' = NetworkTimeout
              /\ UNCHANGED netIn
         [] OTHER ->
              /\ pc' = "done"
              /\ UNCHANGED <<state, netIn, netLeft, pend_p, pend_n>>
    /\ UNCHANGED <<requests, req_closed, reqLeft, connLeft, clock, throttle, thrLeft>>

RequestOutcomes == {"request", "timeout", "closed"}

\* the throttle's delay as a slip in the code would set it: half the
\* configured duration
ThrottleDelay_half == throttle \div 2

\* time::throttle(throttle, requests) (line 141): after an item the throttled
\* stream waits for `throttle` before it polls the channel again
ThrottleDelay == throttle

\* requests.next() of the throttled stream is ready: the delay is over and
\* the channel holds a request or is closed
RequestReady == thrLeft = 0 /\ (requests # <<>> \/ req_closed)

\* `Ok(None) => break` written as `continue`: request_stream polls the
\* closed channel again instead of ending
request_closed_continue ==
    /\ requests = <<>>
    /\ req_closed
    /\ thrLeft = 0
    /\ UNCHANGED <<pc, state, requests, reqLeft, thrLeft, pend_p, pend_n>>

\* requests.next() returned None: request_stream ends (line 152) and the
\* select of stream() breaks out of the loop (line 103)
request_closed ==
    /\ requests = <<>>
    /\ req_closed
    /\ thrLeft = 0
    /\ pc' = "done"
    /\ UNCHANGED <<state, requests, reqLeft, thrLeft, pend_p, pend_n>>

\* select!: request_stream.next() is ready.  request_stream yields the next
\* request as a packet, or a Pingreq when none came for keep_alive, and ends
\* when the channel is closed and empty
request_stream(o) ==
    /\ pc = "select"
    /\ CASE o = "request" ->
              /\ requests # <<>>
              /\ thrLeft = 0
              /\ Dispatch(handle_request(state, Head(requests)))
              /\ requests' = Tail(requests)
              /\ reqLeft' = RequestTimeout
              /\ thrLeft' = ThrottleDelay
         [] o = "timeout" ->
              /\ ~RequestReady
              /\ reqLeft = 0
              /\ Dispatch(handle_request(state, Pingreq))
              /\ reqLeft' = RequestTimeout
              /\ UNCHANGED <<requests, thrLeft>>
         [] OTHER -> request_closed
    /\ UNCHANGED <<req_closed, netIn, netLeft, connLeft, clock, throttle>>

\* lines 116-121: network_tx.mqtt_write(&p).await
mqtt_write(ok) ==
    /\ pc = "write"
    /\ IF ok
       THEN /\ pc' = IF pend_n # NoNote THEN "yield" ELSE "select"
            /\ pend_p' = NoPkt
            /\ UNCHANGED pend_n
       ELSE Fail("Network")
    /\ UNCHANGED <<state, requests, req_closed, netIn, reqLeft, netLeft, connLeft, clock, throttle, thrLeft>>

\* the consumer polls the stream again after a yield: a notification goes
\* back to the select, a StreamEnd is followed by return / break
yield ==
    /\ pc = "yield"
    /\ pc' = IF pend_n.kind = "StreamEnd" THEN "done" ELSE "select"
    /\ pend_n' = NoNote
    /\ UNCHANGED <<state, requests, req_closed, netIn, pend_p, reqLeft, netLeft, connLeft, clock, throttle, thrLeft>>

(***************************************************************************)
(* The environment of the event loop.                                       *)
(***************************************************************************)
\* requests queued that will take a packet id
PkidsQueued == Cardinality({i \in DOMAIN requests : requests[i] # Publish(0, 0)})

\* the user sends a request on the channel
user_send(r) ==
    /\ ~req_closed
    /\ Len(requests) < ReqCap
    /\ r = Publish(0, 0) \/ state.last_pkid + PkidsQueued < MaxPkid
    /\ requests' = Append(requests, r)
    /\ UNCHANGED <<pc, state, req_closed, netIn, pend_p, pend_n, reqLeft, netLeft, connLeft, clock, throttle, thrLeft>>

\* the user drops the sender of the request channel
user_close ==
    /\ ~req_closed
    /\ req_closed' = TRUE
    /\ UNCHANGED <<pc, state, requests, netIn, pend_p, pend_n, reqLeft, netLeft, connLeft, clock, throttle, thrLeft>>

\* the broker sends a packet on the open connection
broker_send(p) ==
    /\ pc \in {"connack", "select"}
    /\ Len(netIn) < NetCap
    /\ netIn' = Append(netIn, p)
    /\ UNCHANGED <<pc, state, requests, req_closed, pend_p, pend_n, reqLeft, netLeft, connLeft, clock, throttle, thrLeft>>

\* one clock tick passes while the loop is suspended in an await with
\* nothing ready: the running time::timeout futures get one tick closer.  A
\* ready read, a ready request or an expired timeout wakes the task at once
tick ==
    /\ clock > 0
    /\ \/ pc = "connack" /\ netIn = <<>> /\ connLeft > 0
       \/ /\ pc = "select"
          /\ netIn = <<>>
          /\ ~RequestReady
          /\ reqLeft > 0
          /\ netLeft > 0
    /\ connLeft' = IF pc = "connack" THEN connLeft - 1 ELSE connLeft
    /\ reqLeft' = IF pc = "select" THEN reqLeft - 1 ELSE reqLeft
    /\ netLeft' = IF pc = "select" THEN netLeft - 1 ELSE netLeft
    /\ thrLeft' = IF thrLeft > 0 THEN thrLeft - 1 ELSE 0
    /\ UNCHANGED <<pc, state, requests, req_closed, netIn, pend_p, pend_n, clock, throttle>>

(***************************************************************************)
(* Observers: history variables that record what the loop did.  They are    *)
(* written by the actions of the specifications and read only by the        *)
(* properties.                                                              *)
(***************************************************************************)
RECURSIVE Ascending(_)
Ascending(S) ==
    IF S = {} THEN <<>>
    ELSE LET m == CHOOSE x \in S : \A y \in S : x <= y
         IN <<m>> \o Ascending(S \ {m})

OutboundIds(s) == {e.pkid : e \in s.outbound}

HistInit ==
    /\ gen = 0
    /\ fatal = ""
    /\ lastYield = NoNote
    /\ carried = <<>>
    /\ resent = <<>>
    /\ newWritten = FALSE
    /\ qos2 = {}
    /\ hist = [id \in Pkids |-> <<>>]

ObsOff == [now |-> 0]

IsUserPacket(p) == p.kind \in {"Publish", "Subscribe", "Unsubscribe"} /\ ~p.dup

Log(id, e) ==
    hist' = IF id \in qos2 THEN [hist EXCEPT ![id] = Append(@, e)] ELSE hist

(***************************************************************************)
(* The event loop with an arbitrary broker, an arbitrary user and timers    *)
(* that may expire at any moment.                                           *)
(***************************************************************************)
StreamConnect ==
    \E o \in ConnectOutcomes :
        /\ gen < MaxStreams
        /\ stream_connect(o)
        /\ gen' = gen + 1
        /\ fatal' = IF o = "ok" THEN ""
                    ELSE IF o = "connect_timeout" THEN "Timeout" ELSE "Network"
        /\ lastYield' = NoNote
        /\ carried' = IF gen >= 1 THEN Ascending(OutboundIds(state)) ELSE <<>>
        /\ resent' = <<>>
        /\ newWritten' = FALSE
        /\ UNCHANGED <<qos2, hist, obs, connVars, sideVars>>

MqttConnect ==
    \E o \in ReadOutcomes :
        /\ mqtt_connect(o)
        /\ fatal' = IF pend_n'.kind = "StreamEnd" THEN pend_n'.err ELSE fatal
        /\ UNCHANGED <<gen, lastYield, carried, resent, newWritten, qos2, hist, obs, connVars, sideVars>>

NetworkStream ==
    \E o \in ReadOutcomes :
        /\ network_stream(o)
        /\ fatal' = IF o = "error" THEN "Network"
                    ELSE IF pend_n'.kind = "StreamEnd" THEN pend_n'.err ELSE fatal
        /\ IF o = "packet" /\ pc' # "yield" /\ Head(netIn).kind = "Pubcomp"
           THEN Log(Head(netIn).pkid, "Comp")
           ELSE IF o = "packet" /\ pc' = "write" /\ Head(netIn).kind = "Pubrec"
           THEN Log(Head(netIn).pkid, "Rec")
           ELSE UNCHANGED hist
        /\ UNCHANGED <<gen, lastYield, carried, resent, newWritten, qos2, obs, connVars, sideVars>>

RequestStream ==
    \E o \in RequestOutcomes :
        /\ request_stream(o)
        /\ fatal' = IF pend_n'.kind = "StreamEnd" THEN pend_n'.err ELSE fatal
        /\ qos2' = IF o = "request" /\ Head(requests) = Publish(2, 0)
                   THEN qos2 \cup {state'.last_pkid} ELSE qos2
        /\ UNCHANGED <<gen, lastYield, carried, resent, newWritten, hist, obs, connVars, sideVars>>

MqttWrite ==
    \E ok \in BOOLEAN :
        /\ mqtt_write(ok)
        /\ fatal' = IF ok THEN fatal ELSE "Network"
        /\ resent' = IF ok /\ pend_p.kind = "Publish" /\ pend_p.dup /\ ~newWritten
                     THEN Append(resent, pend_p.pkid) ELSE resent
        /\ newWritten' = (newWritten \/ (ok /\ IsUserPacket(pend_p)))
        /\ IF ok /\ pend_p.kind = "Publish" /\ pend_p.qos = 2
           THEN Log(pend_p.pkid, "Pub")
           ELSE IF ok /\ pend_p.kind = "Pubrel"
           THEN Log(pend_p.pkid, "Rel")
           ELSE UNCHANGED hist
        /\ UNCHANGED <<gen, lastYield, carried, qos2, obs, connVars, sideVars>>

Yield ==
    /\ yield
    /\ lastYield' = [pend_n EXCEPT !.pkid = 0]
    /\ UNCHANGED <<gen, fatal, carried, resent, newWritten, qos2, hist, obs, connVars, sideVars>>

UserSend ==
    \E r \in UserRequests :
        /\ user_send(r)
        /\ UNCHANGED <<histVars, obs, connVars, sideVars>>

UserClose ==
    /\ user_close
    /\ UNCHANGED <<histVars, obs, connVars, sideVars>>

BrokerSend ==
    \E p \in BrokerPackets :
        /\ broker_send(p)
        /\ UNCHANGED <<histVars, obs, connVars, sideVars>>

LoopInit ==
    /\ SideInit
    /\ ConnInit
    /\ CoreInit(0, 0)
    /\ HistInit
    /\ obs = ObsOff

LoopNext ==
    \/ StreamConnect
    \/ MqttConnect
    \/ NetworkStream
    \/ RequestStream
    \/ MqttWrite
    \/ Yield
    \/ UserSend
    \/ UserClose
    \/ BrokerSend

SpecLoop == LoopInit /\ [][LoopNext]_vars

(***************************************************************************)
(* The first stream() of an event loop under the scheduling the runtime     *)
(* gives it: the consumer keeps polling the stream, an awaited write or     *)
(* handshake completes, and select!, which picks at random among its ready  *)
(* branches, does not ignore a branch that is ready again and again.        *)
(***************************************************************************)
FirstStream ==
    /\ pc = "idle"
    /\ StreamConnect

\* the select takes the request branch and finds the channel closed
RequestClosed ==
    /\ request_stream("closed")
    /\ UNCHANGED <<histVars, obs, connVars, sideVars>>

FairNext ==
    \/ FirstStream
    \/ MqttConnect
    \/ NetworkStream
    \/ RequestStream
    \/ MqttWrite
    \/ Yield
    \/ UserSend
    \/ UserClose
    \/ BrokerSend

Fairness ==
    /\ WF_vars(MqttConnect)
    /\ WF_vars(MqttWrite)
    /\ WF_vars(Yield)
    /\ SF_vars(RequestClosed)

SpecFair == LoopInit /\ [][FairNext]_vars /\ Fairness

(***************************************************************************)
(* The Connection handle on its own: the router's calls and the receiver.   *)
(***************************************************************************)
ConnSpecInit ==
    /\ SideInit
    /\ ConnInit
    /\ CoreInit(0, 0)
    /\ HistInit
    /\ obs = ObsOff

ConnSpecNext == ConnNext

SpecConn == ConnSpecInit /\ [][ConnSpecNext]_vars

(***************************************************************************)
(* The Connection handle under a router that retries the parked             *)
(* notification before every new one (SpecRedeliver).  The receiver keeps   *)
(* receiving while its channel holds something, and a connection whose      *)
(* notification is parked is served again.                                  *)
(***************************************************************************)
RedeliverNext == NotifyLastFailed \/ NotifyAfterRetry \/ Drain \/ DropReceiver

SpecRedeliver ==
    /\ ConnSpecInit
    /\ [][RedeliverNext]_vars
    /\ WF_vars(Drain)
    /\ WF_vars(NotifyLastFailed)

(***************************************************************************)
(* The event loop with a clock (SpecTime): the first stream() of an         *)
(* MqttEventLoop, timers measured in ticks, an arbitrary broker and user.   *)
(* obs records what the environment did and when the loop wrote.            *)
(***************************************************************************)
Horizon == 2 * (KeepAlive + 1) * TicksPerSec + 1     \* obs.now saturates here

ObsInit ==
    [now |-> 0,              \* ticks since connect() was called / the loop started
     phase |-> "idle",       \* idle, handshake, loop, failed
     linkDown |-> FALSE,     \* the read of the handshake failed
     heard |-> FALSE,        \* the broker sent a packet during the handshake
     connackSent |-> FALSE,  \* the broker sent a ConnAck during the handshake
     connResult |-> "",      \* result of mqtt_connect: Ok or the error
     connAt |-> 0,           \* obs.now when mqtt_connect failed
     userSent |-> FALSE,     \* the user sent a request
     sinceUser |-> 0,        \* ticks since the last request (or the loop start)
     steady |-> TRUE,        \* no gap of keep_alive between requests so far
     silent |-> TRUE,        \* the broker sent nothing after the ConnAck
     replyDue |-> FALSE,     \* the broker sent a publish of QoS 1 or 2
     unasked |-> FALSE,      \* the broker sent something else than the answer to a ping
     pingAge |-> -1,         \* ticks since the unanswered PingReq was written, -1: none
     prompt |-> TRUE,        \* no PingReq waited a second for its PingResp so far
     wrote |-> FALSE,        \* the loop wrote a packet
     pinged |-> FALSE,       \* the loop wrote a PingReq
     woke |-> "",            \* the timeout that expired in the last select: request, network
     sinceReq |-> -1,        \* throttled stream: ticks since a request was written, -1: none
     backlog |-> TRUE,       \* throttled stream: no tick passed on an empty channel since then
     gap |-> -1]             \* throttled stream: ticks between the last two requests written

RequiresReply(p) == p.kind = "Publish" /\ p.qos > 0

\* the requests and the packets of the timed environment.  After the
\* handshake the traffic is one-sided: the user sends while the broker has
\* been silent, the broker sends while the user has sent nothing
TimedRequests == {Publish(0, 0)}
TimedPackets == {Connack(TRUE), Pingresp, Publish(1, 1)}

TStreamConnect ==
    \E o \in ConnectOutcomes :
        /\ pc = "idle"
        /\ stream_connect(o)
        /\ obs' = [obs EXCEPT !.now = 0,
                              !.phase = IF o = "ok" THEN "handshake" ELSE "failed"]
        /\ UNCHANGED <<histVars, connVars, sideVars>>

TMqttConnect ==
    \E o \in ReadOutcomes :
        /\ mqtt_connect(o)
        /\ obs' = [obs EXCEPT !.connResult = IF pc' = "select" THEN "Ok" ELSE pend_n'.err,
                              !.connAt = IF pc' = "select" THEN 0 ELSE obs.now,
                              !.phase = IF pc' = "select" THEN "loop" ELSE "failed",
                              !.now = IF pc' = "select" THEN 0 ELSE @,
                              !.linkDown = (o = "error")]
        /\ UNCHANGED <<histVars, connVars, sideVars>>

TNetworkStream ==
    \E o \in ReadOutcomes :
        /\ network_stream(o)
        /\ obs' = [obs EXCEPT !.woke = IF o = "timeout" THEN "network" ELSE ""]
        /\ UNCHANGED <<histVars, connVars, sideVars>>

TRequestStream ==
    \E o \in RequestOutcomes :
        /\ request_stream(o)
        /\ obs' = [obs EXCEPT !.woke = IF o = "timeout" THEN "request" ELSE ""]
        /\ UNCHANGED <<histVars, connVars, sideVars>>

TMqttWrite ==
    \E ok \in BOOLEAN :
        /\ mqtt_write(ok)
        /\ LET request == throttle > 0 /\ pend_p.kind = "Publish"
           IN obs' = IF ok
                     THEN [obs EXCEPT !.wrote = TRUE,
                                      !.pinged = @ \/ (pend_p = Pingreq),
                                      !.pingAge = IF pend_p = Pingreq THEN 0 ELSE @,
                                      !.gap = IF request THEN obs.sinceReq ELSE @,
                                      !.backlog = @ \/ request,
                                      !.sinceReq = IF request THEN 0 ELSE @]
                     ELSE obs
        /\ UNCHANGED <<histVars, connVars, sideVars>>

TYield ==
    /\ yield
    /\ UNCHANGED <<histVars, obs, connVars, sideVars>>

TUserSend ==
    \E r \in TimedRequests :
        /\ obs.silent
        /\ user_send(r)
        /\ obs' = [obs EXCEPT !.userSent = TRUE, !.sinceUser = 0]
        /\ UNCHANGED <<histVars, connVars, sideVars>>

TBrokerSend ==
    \E p \in TimedPackets :
        /\ (obs.phase = "loop" \/ netIn # <<>>) => ~obs.userSent
        /\ broker_send(p)
        /\ LET \* the handshake reads one packet; the loop reads what follows it
               forLoop == obs.phase = "loop" \/ netIn # <<>>
           IN obs' = [obs EXCEPT
                        !.heard = @ \/ (obs.phase = "handshake"),
                        !.connackSent = @ \/ (obs.phase = "handshake" /\ p.kind = "Connack"),
                        !.silent = @ /\ ~forLoop,
                        !.replyDue = @ \/ (forLoop /\ RequiresReply(p)),
                        !.unasked = @ \/ (forLoop /\ ~(p = Pingresp /\ obs.pingAge >= 0)),
                        !.pingAge = IF forLoop /\ p = Pingresp THEN -1 ELSE @]
        /\ UNCHANGED <<histVars, connVars, sideVars>>

Tick ==
    /\ tick
    /\ obs' = [obs EXCEPT
                 !.now = Min(@ + 1, Horizon),
                 !.sinceUser = IF obs.phase = "loop" THEN Min(@ + 1, KeepAlive * clock) ELSE @,
                 !.steady = @ /\ (obs.phase = "loop" => obs.sinceUser + 1 < KeepAlive * clock),
                 !.pingAge = IF @ >= 0 THEN Min(@ + 1, clock) ELSE @,
                 !.prompt = @ /\ ~(obs.pingAge >= 0 /\ obs.pingAge + 1 >= clock),
                 !.sinceReq = IF @ >= 0 THEN Min(@ + 1, throttle + 1) ELSE @,
                 !.backlog = @ /\ (throttle > 0 => requests # <<>>)]
    /\ UNCHANGED <<histVars, connVars, sideVars>>

TimeInit ==
    /\ SideInit
    /\ ConnInit
    /\ CoreInit(TicksPerSec, 0)
    /\ HistInit
    /\ obs = ObsInit

TimeNext ==
    \/ TStreamConnect
    \/ TMqttConnect
    \/ TNetworkStream
    \/ TRequestStream
    \/ TMqttWrite
    \/ TYield
    \/ TUserSend
    \/ TBrokerSend
    \/ Tick

SpecTime == TimeInit /\ [][TimeNext]_vars

(***************************************************************************)
(* The select of the first stream() with logs of what went in and what was  *)
(* handled (SpecSelect): an arbitrary user and broker, timers that may      *)
(* expire at any moment, reads and writes that may fail.                    *)
(***************************************************************************)
SelectObsInit ==
    [sent |-> <<>>,       \* requests the user put on the channel, in order
     taken |-> <<>>,      \* requests handle_request took, as its outpackets show them
     arrived |-> <<>>,    \* packets the broker put on the connection, in order
     handled |-> <<>>,    \* packets handed to handle_incoming_connack / handle_packet
     raced |-> FALSE]     \* the network branch won while a request was ready

SelectRequests == {Publish(0, 0), Publish(1, 0), Pkt("Subscribe", 0, 0, FALSE)}

\* packets with every kind of result: nothing, a notification, a reply with
\* a notification, an error
SelectPackets ==
    {Connack(TRUE), Pingresp, Publish(0, 0), Publish(1, 1), Ack("Puback", 1)}

SStreamConnect ==
    \E o \in ConnectOutcomes :
        /\ pc = "idle"
        /\ stream_connect(o)
        /\ UNCHANGED <<histVars, obs, connVars, sideVars>>

SMqttConnect ==
    \E o \in ReadOutcomes :
        /\ mqtt_connect(o)
        /\ obs' = IF o = "packet"
                  THEN [obs EXCEPT !.handled = Append(@, Head(netIn))]
                  ELSE obs
        /\ UNCHANGED <<histVars, connVars, sideVars>>

SNetworkStream ==
    \E o \in ReadOutcomes :
        /\ network_stream(o)
        /\ obs' = [obs EXCEPT
                     !.handled = IF o = "packet" THEN Append(@, Head(netIn)) ELSE @,
                     !.raced = @ \/ (o = "packet" /\ requests # <<>> /\ thrLeft = 0)]
        /\ UNCHANGED <<histVars, connVars, sideVars>>

SRequestStream ==
    \E o \in RequestOutcomes :
        /\ request_stream(o)
        /\ obs' = IF o = "request"
                  THEN [obs EXCEPT !.taken = Append(@, [pend_p' EXCEPT !.pkid = 0])]
                  ELSE obs
        /\ UNCHANGED <<histVars, connVars, sideVars>>

SMqttWrite ==
    \E ok \in BOOLEAN :
        /\ mqtt_write(ok)
        /\ UNCHANGED <<histVars, obs, connVars, sideVars>>

SYield ==
    /\ yield
    /\ UNCHANGED <<histVars, obs, connVars, sideVars>>

SUserSend ==
    \E r \in SelectRequests :
        /\ Len(obs.sent) < MaxSends
        /\ user_send(r)
        /\ obs' = [obs EXCEPT !.sent = Append(@, r)]
        /\ UNCHANGED <<histVars, connVars, sideVars>>

SUserClose ==
    /\ user_close
    /\ UNCHANGED <<histVars, obs, connVars, sideVars>>

SBrokerSend ==
    \E p \in SelectPackets :
        /\ Len(obs.arrived) < MaxArrivals
        /\ broker_send(p)
        /\ obs' = [obs EXCEPT !.arrived = Append(@, p)]
        /\ UNCHANGED <<histVars, connVars, sideVars>>

SelectInit ==
    /\ SideInit
    /\ ConnInit
    /\ CoreInit(0, 0)
    /\ HistInit
    /\ obs = SelectObsInit

SelectNext ==
    \/ SStreamConnect
    \/ SMqttConnect
    \/ SNetworkStream
    \/ SRequestStream
    \/ SMqttWrite
    \/ SYield
    \/ SUserSend
    \/ SUserClose
    \/ SBrokerSend

SpecSelect == SelectInit /\ [][SelectNext]_vars

(***************************************************************************)
(* The same loop with options.throttle set (SpecThrottle).                  *)
(***************************************************************************)
ThrottleInit ==
    /\ SideInit
    /\ ConnInit
    /\ CoreInit(TicksPerSec, ThrottleSecs * TicksPerSec)
    /\ HistInit
    /\ obs = ObsInit

SpecThrottle == ThrottleInit /\ [][TimeNext]_vars

(***************************************************************************)
(* The Watermarks of one topic (SpecWatermarks): the router appends         *)
(* publishes and takes replication acks, in standalone mode or with two     *)
(* replicas, with offsets counted from 0 or from 1.                         *)
(***************************************************************************)
WatermarksInit ==
    /\ ConnInit
    /\ CoreInit(0, 0)
    /\ HistInit
    /\ obs = ObsOff
    /\ rq = NewReadyQueue
    /\ dec = NoDecode
    /\ \E replication \in {0, 2}, base \in {0, 1} : wm = NewWatermarks(replication, base)

WatermarksNext == RouterData \/ RouterReplicationAck

SpecWatermarks == WatermarksInit /\ [][WatermarksNext]_vars

(***************************************************************************)
(* The ReadyQueue under any sequence of pushes and pops (SpecReady).        *)
(***************************************************************************)
ReadyInit ==
    /\ ConnInit
    /\ CoreInit(0, 0)
    /\ HistInit
    /\ obs = ObsOff
    /\ SideInit

ReadyNext == ReadyPush \/ ReadyPop

SpecReady == ReadyInit /\ [][ReadyNext]_vars

(***************************************************************************)
(* The decoders applied to frames (SpecCodec).                              *)
(***************************************************************************)
CodecInit ==
    /\ ConnInit
    /\ CoreInit(0, 0)
    /\ HistInit
    /\ obs = ObsOff
    /\ SideInit

CodecNext == DecodeSubAck \/ DecodePubRel

SpecCodec == CodecInit /\ [][CodecNext]_vars

(***************************************************************************)
(* Properties of the Connection handle (SpecConn).                          *)
(***************************************************************************)
\* C1: every notification passed to notify was either enqueued on the
\* bounded handle or is the one held in last_failed; none is dropped or
\* overwritten
C1_NoNotificationLost ==
    \A n \in 1..notified : n \in Range(enqueued) \/ last_failed = n

\* a step of SpecConn that is a call of notify_last_failed: no new
\* notification, nothing received, the Receiver not dropped in the step
RetryStep == notified' = notified /\ delivered' = delivered /\ rx_open' = rx_open

\* a step that is a call of notify with a new notification
NotifyStep == notified' = notified + 1

\* C23: a call of notify_last_failed returns true iff last_failed is empty
\* after it; with last_failed empty on entry it sends nothing and returns
\* true; a retry that fails leaves the same notification in last_failed and
\* the channel as it was; a retry that succeeds puts it on the channel
C23_RetryReturnValue ==
    [][RetryStep
          => /\ ret' <=> (last_failed' = None)
             /\ last_failed = None
                    => (ret' /\ handle' = handle /\ enqueued' = enqueued)
             /\ (last_failed # None /\ ~ret')
                    => (last_failed' = last_failed /\ handle' = handle)
             /\ (last_failed # None /\ ret')
                    => handle' = Append(handle, last_failed)]_vars

C23_Witness ==
    /\ cleared
    /\ ret
    /\ last_failed = None
    /\ notified = Capacity + 2
    /\ enqueued = [i \in 1..Capacity + 1 |-> IF i <= Capacity THEN i ELSE Capacity + 2]

\* C24: on a handle whose Receiver was dropped notify(n) returns false,
\* stores n in last_failed and sends nothing, as it does on a full channel;
\* from then on notify_last_failed returns false, last_failed stays
\* occupied, and both calls have a result in every such state
C24_ClosedHandle ==
    [][/\ (NotifyStep /\ (~rx_open \/ Len(handle) >= Capacity))
              => (~ret' /\ last_failed' = notified' /\ handle' = handle)
       /\ (RetryStep /\ ~rx_open /\ last_failed # None)
              => (~ret' /\ last_failed' = last_failed /\ handle' = handle)
       /\ (~rx_open /\ last_failed # None) => last_failed' # None
       /\ ~rx_open => ENABLED NotifyLastFailed
       /\ (~rx_open /\ notified < MaxNotes) => ENABLED Notify]_vars

C24_Witness ==
    /\ ~rx_open
    /\ ~ret
    /\ notified = 2
    /\ last_failed = 2
    /\ enqueued = <<>>
    /\ handle = <<>>

(***************************************************************************)
(* Properties of the Connection handle under the retrying router            *)
(* (SpecRedeliver).                                                         *)
(***************************************************************************)
\* C17: what the receiver took, followed by what the channel holds and by
\* the parked notification, is the sequence of notifications the router
\* produced, each once and in order; and every notification produced is
\* eventually received unless the receiver is dropped
C17_OrderedRedelivery ==
    /\ [](delivered \o handle \o (IF last_failed # None THEN <<last_failed>> ELSE <<>>)
            = [i \in 1..notified |-> i])
    /\ \A n \in 1..MaxNotes :
          (notified >= n) ~> (n \in Range(delivered) \/ ~rx_open)

C17_Witness ==
    /\ last_failed = MaxNotes
    /\ ~ret
    /\ handle = <<>>
    /\ delivered = [i \in 1..MaxNotes - 1 |-> i]
    /\ rx_open

(***************************************************************************)
(* Properties of the event loop with untimed timers (SpecLoop).             *)
(***************************************************************************)
IsPrefix(s, t) == Len(s) <= Len(t) /\ \A i \in 1..Len(s) : s[i] = t[i]

\* C2: a stream that ended because of a fatal error yielded
\* StreamEnd(error) as its last item
C2_FatalEndsWithStreamEnd ==
    (pc = "done" /\ fatal # "") => lastYield = StreamEnd(fatal)

\* C7: the outbound map never holds more than max_inflight entries, and
\* while it holds max_inflight entries no request is pulled from the
\* request channel
C7_InflightBound ==
    [][/\ Cardinality(state'.outbound) <= MaxInflight
       /\ Cardinality(state.outbound) >= MaxInflight
              => Len(requests') >= Len(requests)]_vars

\* C8: on a stream() called again, by the time a new user request is
\* written every publish carried over in the outbound map was written with
\* dup = true, in packet-id order
C8_ResendBeforeNewRequests ==
    (gen >= 2 /\ newWritten) => resent = carried

\* C9: the packet id of an outgoing QoS-1 publish leaves the outbound map
\* only in the step that handles a PubAck with that packet id
C9_Qos1UntilPuback ==
    [][\A e \in state.outbound :
          (e.qos = 1 /\ e \notin state'.outbound)
              => /\ pc = "select"
                 /\ netIn # <<>>
                 /\ Head(netIn) = Ack("Puback", e.pkid)
                 /\ netIn' = Tail(netIn)]_vars

\* C10: for every packet id of an outgoing QoS-2 publish the events occur
\* in the order Publish written, PubRec received, PubRel written, PubComp
\* received, each once
C10_Qos2FourStep ==
    \A id \in qos2 : IsPrefix(hist[id], <<"Pub", "Rec", "Rel", "Comp">>)

\* C19: when the loop reads a PubAck whose packet id is not in the
\* outbound map, the state returns an error and is left unchanged, the
\* loop writes nothing and yields StreamEnd with that error, and the stream
\* ends after that yield
C19_UnsolicitedPubAckFatal ==
    [][/\ (/\ pc = "select"
           /\ netIn # <<>>
           /\ netIn' = Tail(netIn)
           /\ Head(netIn).kind = "Puback"
           /\ Head(netIn).pkid \notin OutboundIds(state))
              => /\ pc' = "yield"
                 /\ pend_n' = StreamEnd("Unsolicited")
                 /\ pend_p' = NoPkt
                 /\ state'.outbound = state.outbound
       /\ (pc = "yield" /\ pend_n = StreamEnd("Unsolicited") /\ pc' # "yield")
              => /\ pc' = "done"
                 /\ lastYield' = StreamEnd("Unsolicited")
                 /\ state'.outbound = state.outbound]_vars

C19_Witness ==
    /\ pc = "done"
    /\ fatal = "Unsolicited"
    /\ lastYield = StreamEnd("Unsolicited")
    /\ state.outbound = {[pkid |-> 1, qos |-> 1]}
    /\ state.release = {}

\* C21: a handled event that produced a reply and a notification goes to
\* the write first; a notification is handed to the consumer only when no
\* reply of its iteration is left unwritten; the write either succeeds and
\* leaves the notification as it was, or fails, and then StreamEnd takes the
\* place of the notification and is the stream's last item; a packet is
\* pending only while the loop awaits its write, so at most one write is in
\* progress
C21_ReplyBeforeNotification ==
    [][/\ (pc = "select" /\ pend_p' # NoPkt) => pc' = "write"
       /\ (pc' = "yield" /\ pend_n'.kind # "StreamEnd") => pend_p' = NoPkt
       /\ (pend_p # NoPkt /\ pend_p' # pend_p)
              => /\ pc = "write"
                 /\ pend_p' = NoPkt
                 /\ \/ pend_n' = pend_n /\ fatal' = fatal
                       /\ pc' = (IF pend_n # NoNote THEN "yield" ELSE "select")
                    \/ pend_n' = StreamEnd("Network") /\ pc' = "yield"
       /\ (pc = "yield" /\ pend_n = StreamEnd("Network") /\ pc' # "yield")
              => (pc' = "done" /\ lastYield' = StreamEnd("Network"))
       /\ (pend_p' # NoPkt) <=> (pc' = "write")]_vars

C21_Witness ==
    /\ pc = "yield"
    /\ pend_n = Note("Publish", 1, "")
    /\ pend_p = NoPkt
    /\ state.incoming = {}
    /\ fatal = ""

\* the stream was not started or is in its handshake
Handshake == pc \in {"idle", "done", "connack"}

\* C20: a run of stream() first writes Connect and records it in the
\* state; during the handshake no request is pulled, no packet is handed to
\* the writer and nothing but a StreamEnd is handed to the consumer; the
\* loop is entered only by reading a ConnAck that the state accepts; a
\* failed handshake yields one StreamEnd, the stream's only item, and ends
C20_HandshakeFirst ==
    [][/\ Handshake
              => /\ Len(requests') >= Len(requests)
                 /\ pend_p' = NoPkt
                 /\ pend_n' = NoNote \/ pend_n'.kind = "StreamEnd"
                 /\ pc' \in {pc, "connack", "select", "yield"}
                 /\ pc' = "yield" => (pend_n'.kind = "StreamEnd" /\ lastYield' = NoNote)
       /\ (pc \in {"idle", "done"} /\ pc' # pc)
              => /\ pc' \in {"connack", "yield"}
                 /\ pc' = "connack" => state'.await_connack
       /\ (pc = "connack" /\ pc' = "select")
              => /\ netIn # <<>>
                 /\ Head(netIn) = Connack(TRUE)
                 /\ netIn' = Tail(netIn)
                 /\ state.await_connack /\ ~state'.await_connack
       /\ Len(requests') < Len(requests) => pc = "select"
       /\ (pc = "yield" /\ pend_n.kind = "StreamEnd" /\ pc' # "yield")
              => (pc' = "done" /\ lastYield' = pend_n)]_vars

C20_Witness ==
    /\ gen = 2
    /\ pc = "select"
    /\ ~state.await_connack
    /\ newWritten
    /\ lastYield.kind = "Puback"

Running == pc \in {"connack", "select", "write", "yield"}

\* C11: once the request channel is closed and empty, a running stream
\* eventually ends, and it never ends on the closed channel with a packet
\* of the current iteration still unwritten
C11_CloseEndsStream ==
    /\ (Running /\ req_closed /\ requests = <<>>) ~> (pc = "done")
    /\ [][(pc # "done" /\ pc' = "done" /\ fatal' = "") => pend_p = NoPkt]_vars

C11_Witness ==
    /\ pc = "done"
    /\ req_closed
    /\ requests = <<>>
    /\ fatal = ""
    /\ lastYield.kind \notin {"none", "StreamEnd"}

(***************************************************************************)
(* Properties of the event loop with a clock (SpecTime).  K is keep_alive   *)
(* in ticks.                                                                *)
(***************************************************************************)
K == KeepAlive * TicksPerSec
Second == TicksPerSec

\* C3, as claimed: if the user sent no request, the first packet the loop
\* writes is a PingReq and it is written K after the loop started
C3_FirstWriteIsPingAtK ==
    [][/\ (~obs.userSent /\ ~obs.wrote /\ obs'.wrote)
              => (pend_p = Pingreq /\ obs.now = K)
       /\ (~obs'.userSent /\ pc' = "select" /\ obs'.now > K) => obs'.wrote]_vars

\* C3, amended: if the user sent no request and the broker sent no publish
\* of QoS 1 or 2, the first packet the loop writes is a PingReq, it is
\* written exactly K after the loop started, and a loop still running after
\* K has written it
C3_IdleFirstWriteIsPingAtK ==
    [][/\ (~obs.userSent /\ ~obs.replyDue /\ ~obs.wrote /\ obs'.wrote)
              => (pend_p = Pingreq /\ obs.now = K)
       /\ (~obs'.userSent /\ ~obs'.replyDue /\ pc' = "select" /\ obs'.now > K)
              => obs'.wrote]_vars

C3_Witness ==
    /\ obs.phase = "loop"
    /\ ~obs.userSent
    /\ ~obs.replyDue
    /\ obs.pinged
    /\ obs.now = K

\* the user kept sending QoS-0 publishes less than K apart and the broker
\* sent nothing after the ConnAck
QosZeroTraffic == obs.phase = "loop" /\ obs.steady /\ obs.silent

\* C4: with QoS-0 publishes less than K apart and a silent broker, the
\* first PingReq is written exactly K + 1 s after the loop started, a loop
\* still running after that has written it, and request_stream's timeout
\* never expires
C4_NetworkPingAtKPlusOne ==
    [][/\ (QosZeroTraffic /\ ~obs.pinged /\ obs'.pinged) => obs.now = K + Second
       /\ (QosZeroTraffic' /\ pc' = "select" /\ obs'.now > K + Second) => obs'.pinged
       /\ QosZeroTraffic' => obs'.woke # "request"]_vars

C4_Witness ==
    /\ QosZeroTraffic
    /\ obs.userSent
    /\ obs.pinged
    /\ obs.wrote
    /\ obs.now = K + Second

\* the user sent nothing, the broker sent only PingResps that answer a
\* PingReq, each less than a second after the PingReq was written
IdleLink == obs.phase = "loop" /\ ~obs.userSent /\ ~obs.unasked /\ obs.prompt

\* C5: on an idle link whose broker answers every PingReq within less than
\* a second, network_stream's timeout never expires and the loop never
\* fails with AwaitPingResp
C5_NoFalseHalfOpen ==
    IdleLink => /\ obs.woke # "network"
                /\ pend_n # StreamEnd("AwaitPingResp")

C5_Witness ==
    /\ IdleLink
    /\ obs.pinged
    /\ ~obs.silent
    /\ obs.pingAge = -1
    /\ obs.now > K + Second

\* what C6 concludes: connect() has not returned Ok; if it returned, it
\* returned Timeout and did so 5 s after the call; it returns by then
TimesOutAtFive ==
    /\ obs.connResult \in {"", "Timeout"}
    /\ obs.connResult = "Timeout" => obs.connAt = ConnectTimeout * TicksPerSec
    /\ obs.phase = "handshake" => obs.now <= ConnectTimeout * TicksPerSec

\* C6, as claimed: if the broker sends no ConnAck, connect() never returns
\* Ok and returns Timeout 5 s after it was called
C6_NoConnackMeansTimeout ==
    ~obs.connackSent => TimesOutAtFive

\* C6, amended: if the broker sends nothing and the connection stays up,
\* connect() never returns Ok and returns Timeout 5 s after it was called
C6_SilentBrokerMeansTimeout ==
    (~obs.heard /\ ~obs.linkDown) => TimesOutAtFive

C6_Witness ==
    /\ ~obs.heard
    /\ ~obs.linkDown
    /\ obs.connResult = "Timeout"
    /\ obs.connAt = ConnectTimeout * TicksPerSec

\* C18: with QoS-0 publishes less than K apart and a silent broker, the
\* PingReq written at K + 1 s leaves await_pingresp set, the loop fails
\* with AwaitPingResp exactly at 2K + 2 s, on the expiry of
\* network_stream's timeout, and no loop runs past 2K + 2 s
C18_HalfOpenAtTwoKPlusTwo ==
    [][/\ (QosZeroTraffic /\ pend_n # StreamEnd("AwaitPingResp")
                           /\ pend_n' = StreamEnd("AwaitPingResp"))
              => (obs.now = 2 * (K + Second) /\ obs'.woke = "network")
       /\ (QosZeroTraffic' /\ obs'.pinged) => state'.await_pingresp
       /\ (QosZeroTraffic' /\ pc' = "select") => obs'.now <= 2 * (K + Second)]_vars

C18_Witness ==
    /\ QosZeroTraffic
    /\ obs.userSent
    /\ obs.pinged
    /\ pc = "yield"
    /\ pend_n = StreamEnd("AwaitPingResp")
    /\ obs.now = 2 * (K + Second)

(***************************************************************************)
(* Properties of the throttled loop (SpecThrottle).  T is the throttle in   *)
(* ticks.                                                                   *)
(***************************************************************************)
T == ThrottleSecs * TicksPerSec

\* C12: a request is never written less than T after the request before
\* it; while the request channel has a backlog it is written exactly T
\* after it, and the loop does not wait longer than T for it
C12_RequestsThrottleApart ==
    [][/\ (pc = "write" /\ pend_p.kind = "Publish" /\ pc' = "select" /\ obs.sinceReq >= 0)
              => /\ obs.sinceReq >= T
                 /\ obs.backlog => obs.sinceReq = T
       /\ (pc' = "select" /\ obs'.backlog /\ obs'.sinceReq >= 0) => obs'.sinceReq <= T]_vars

C12_Witness ==
    /\ obs.backlog
    /\ obs.gap = T
    /\ obs.sinceReq = 0
    /\ requests # <<>>

(***************************************************************************)
(* Properties of the Watermarks (SpecWatermarks).                           *)
(***************************************************************************)
\* C13: the entries released into Acks are appended entries whose offset
\* the gate has reached (min(w1, w2) with replication, w0 without), and
\* they leave the pending queue from its front in offset order: the Acks
\* followed by the pending queue is the log of appends
C13_AcksGated ==
    /\ wm.acks \o wm.pending = wm.log
    /\ \A i \in DOMAIN wm.acks :
          wm.acks[i].offset <= (IF wm.replication = 0 THEN wm.w[0]
                                ELSE Min(wm.w[1], wm.w[2]))

C13_Witness ==
    /\ wm.replication = 2
    /\ Len(wm.acks) = 2
    /\ Len(wm.pending) = 1
    /\ wm.w[1] # wm.w[2]

(***************************************************************************)
(* Properties of the decoders (SpecCodec).                                  *)
(***************************************************************************)
\* C14: for a SubAck frame with remaining_len = 2 + n, decoding fails iff
\* one of the n payload bytes has the top bit clear and b & 0x03 = 3;
\* otherwise it yields the big-endian u16 of the first two variable-header
\* bytes as pkid and n return codes in payload order, Failure for a byte
\* with the top bit set and Success(b & 0x03) for any other; the bytes
\* after the frame do not matter
C14_SubAckDecoding ==
    (dec.packet = "SubAck" /\ dec.stream[2] >= 2) =>
        LET n == dec.stream[2] - 2
            b(i) == dec.stream[4 + i]
            bad == \E i \in 1..n : b(i) < 128 /\ b(i) % 4 = 3
        IN IF bad THEN ~dec.result.ok
           ELSE /\ dec.result.ok
                /\ dec.result.packet.pkid = dec.stream[3] * 256 + dec.stream[4]
                /\ Len(dec.result.packet.return_codes) = n
                /\ \A i \in 1..n :
                      dec.result.packet.return_codes[i] =
                          IF b(i) >= 128 THEN Failure ELSE Success(b(i) % 4)

C14_Witness ==
    /\ dec.packet = "SubAck"
    /\ dec.stream = <<144, 4, 0, 15, 1, 128, 222>>
    /\ dec.result = Decoded([pkid |-> 15, return_codes |-> <<Success(1), Failure>>])

\* C15: PubRel::assemble fails with PayloadSizeIncorrect when remaining_len
\* is not 2; for remaining_len = 2 it yields the big-endian u16 after the
\* fixed header as pkid, and encoding the decoded packet gives the bytes of
\* the frame
C15_PubRelRoundTrip ==
    dec.packet = "PubRel" =>
        IF dec.stream[2] # 2
        THEN dec.result = Failed("PayloadSizeIncorrect")
        ELSE /\ dec.result.ok
             /\ dec.result.packet.pkid = dec.stream[3] * 256 + dec.stream[4]
             /\ PubRel_write(dec.result.packet) = SubSeq(dec.stream, 1, 4)

C15_Witness ==
    /\ dec.packet = "PubRel"
    /\ dec.stream = <<98, 2, 0, 10>>
    /\ dec.result = Decoded([pkid |-> 10])

\* C25: a SubAck frame with remaining_len < 2 is rejected with an error:
\* SubAck::assemble returns Err, it yields no SubAck and does not panic
C25_ShortSubAckRejected ==
    (dec.packet = "SubAck" /\ dec.stream[2] < 2)
        => (~dec.result.ok /\ "err" \in DOMAIN dec.result)

(***************************************************************************)
(* Properties of the ReadyQueue (SpecReady).                                *)
(***************************************************************************)
\* C16: the queue holds every connection id at most once, and the ids pop
\* returned, followed by the ids still queued, are the ids of the pushes
\* that changed the queue, in the order of those pushes
C16_ReadyQueueFifo ==
    /\ \A i, j \in DOMAIN rq.queue : rq.queue[i] = rq.queue[j] => i = j
    /\ rq.popped \o rq.queue = rq.pushed

C16_Witness ==
    /\ Len(rq.popped) = 2
    /\ Len(rq.queue) = 2
    /\ rq.popped[1] \in Range(rq.queue)

====
